---- MODULE Spec2Model ----
(***************************************************************************)
(* The two-tier cache of the Bitcoin energy API: CacheService (a Redis     *)
(* client in front of an in-process Map) together with its background      *)
(* sweeper, as a state machine.  One action per handler or per             *)
(* continuation between two awaits; the Redis client library and the       *)
(* Redis server are the environment.                                       *)
(***************************************************************************)
EXTENDS Integers, FiniteSets, Sequences, TLC

VARIABLES
  hasConfig,           \* whether process.env held REDIS_URL or REDIS_HOST at construction
  initPc,              \* position of initializeRedis:
                       \*   new / racing / resolved / timedOut / rejected / skipped
  connectionAttempted, \* CacheService.connectionAttempted
  redisClient,         \* CacheService.redisClient: "null" or "client"
  isRedisConnected,    \* CacheService.isRedisConnected
  globalCache,         \* CacheService.globalCache: key -> CacheEntry (NoEntry when absent)
  socket,              \* the client library's socket: none / connecting / open / ready / closed
  remote,              \* the Redis database: key -> stored string and expiry
  now,                 \* Date.now()
  connectDeadline,     \* when the connect timer of initializeRedis fires
  sweepDue,            \* the sweeper's interval has elapsed and its callback is pending
  calls,               \* one record per caller of the facade: idle, or awaiting Redis
  ret,                 \* the call that returned in the last step (NoCall otherwise)
  steps,               \* number of calls started and clock steps taken (bounded)
  named,               \* history: the keys that calls have named so far
  attempts,            \* history: number of redisClient.connect() calls
  everConnected,       \* history: isRedisConnected has been true
  lastSet,             \* history: per key, the most recent completed set, and the
                       \*   store it wrote ("swept" once the sweeper has run with its
                       \*   Local Store entry at least maxAge old)
  delDone,             \* history: per key, whether delete(k) has completed with no set(k)
                       \*   completed since: "no", or the stores it deleted from
                       \*   ("memory", or "both" when its Redis command succeeded)
  prev,                \* history: the set that has just completed, no other operation,
                       \*   sweep or clock step since
  shutdown,            \* history: a call of disconnect() has returned
  cache,               \* BitcoinApiService.cache: cacheKey -> { data, timestamp }
  fetches,             \* one record per caller of BitcoinApiService: idle, or
                       \*   awaiting the race of fetch and its timer
  fret,                \* the BitcoinApiService call that ended in the last step
  apiSweepAt           \* when the interval timer of clearExpiredCache fires next

vars == << hasConfig, initPc, connectionAttempted, redisClient, isRedisConnected,
           globalCache, socket, remote, now, connectDeadline, sweepDue, calls,
           ret, steps, named, attempts, everConnected, lastSet, delDone, prev,
           shutdown, cache, fetches, fret, apiSweepAt >>

\* the state of the BitcoinApiService module
apiVars == << cache, fetches, fret, apiSweepAt >>

-----------------------------------------------------------------------------
(* Bounds of the model *)

\* Calls of the facade and advances of the clock, together, in one behaviour.
MaxSteps == 3

\* Calls of BitcoinApiService and advances of the clock, together, in one
\* behaviour of its own specification.
MaxFetchSteps == 4

Keys == {"k1", "k2"}
\* The (data, ttlMs) pairs set is called with: ttlMs = 0 stands for no ttl.
SetInputs == {<<"v1", 10 * 60 * 1000>>, <<"v2", 0>>, <<"NaN", 5 * 60 * 1000>>}
\* the first key takes every input; a further key takes the first input only
InputsOf(k) == IF k = "k1" THEN SetInputs ELSE {<<"v1", 10 * 60 * 1000>>}
Callers == {1, 2}
EnvSets == {{}, {"REDIS_URL"}, {"REDIS_HOST"}, {"REDIS_URL", "REDIS_HOST"}}

(* Program constants, in milliseconds *)
ConnectTimeoutMs == 15000
MaxAgeMs == 10 * 60 * 1000
SweepIntervalMs == 5 * 60 * 1000
TickSteps == {SweepIntervalMs, MaxAgeMs}

(* BitcoinApiService: its constants in milliseconds, the cache keys of two of *)
(* its methods, and what the upstream API may answer                          *)
CacheExpiryMs == 5 * 60 * 1000
LatestBlockCacheExpiryMs == 1 * 60 * 1000
FetchTimeoutMs == 15000
ApiSweepIntervalMs == 10 * 60 * 1000
ApiKeys == {"latest-block", "block-h"}
UpstreamData == {"d1", "d2"}
ApiTickSteps == {1000, FetchTimeoutMs, LatestBlockCacheExpiryMs, CacheExpiryMs}

-----------------------------------------------------------------------------
(* Data *)

NoEntry == [data |-> "absent", timestamp |-> 0 - 1]
NoExpiry == 0 - 1
NoRemote == [value |-> NoEntry, expireAt |-> NoExpiry]
NoSet ==
  [key |-> "none", data |-> "absent", timestamp |-> 0 - 1, ttl |-> 0,
   store |-> "none"]

CacheEntry(data, timestamp) == [data |-> data, timestamp |-> timestamp]

\* JSON.stringify(entry): NaN has no JSON form and is written as null.
JSONStringify(entry) ==
  [data |-> IF entry.data = "NaN" THEN "null" ELSE entry.data,
   timestamp |-> entry.timestamp]

\* JSON.parse(redisValue) as CacheEntry
JSONParse(str) == CacheEntry(str.data, str.timestamp)

\* Faulty variant of CeilSeconds: the seconds are rounded down.
CeilSecondsFloor(ttlMs) == ttlMs \div 1000

\* Math.ceil(ttlMs / 1000) for ttlMs > 0
CeilSeconds(ttlMs) == (ttlMs + 999) \div 1000

\* What GET key answers: the stored string, unless the key is absent or expired.
RedisGet(k) ==
  IF remote[k].value # NoEntry
     /\ (remote[k].expireAt = NoExpiry \/ now < remote[k].expireAt)
  THEN remote[k].value
  ELSE NoEntry

\* SETEX key seconds value / SET key value / DEL key / FLUSHDB
RedisSetEx(k, seconds, str) ==
  [remote EXCEPT ![k] = [value |-> str, expireAt |-> now + 1000 * seconds]]
RedisSet(k, str) ==
  [remote EXCEPT ![k] = [value |-> str, expireAt |-> NoExpiry]]
RedisDel(k) == [remote EXCEPT ![k] = NoRemote]
RedisFlushDb == [k \in Keys |-> NoRemote]

\* A call of the facade.  pc, op, key, data, ttl and entry are its position,
\* arguments and locals; result and from are what get returns and the store
\* that answered; issued and failed tell whether it sent a Redis command and
\* whether that command threw; afterDel and follows record what preceded it.
NoCall ==
  [pc |-> "idle", op |-> "none", key |-> "none", data |-> "absent", ttl |-> 0,
   entry |-> NoEntry, result |-> NoEntry, from |-> "none",
   issued |-> FALSE, failed |-> FALSE, failedAt |-> "none", raised |-> FALSE,
   afterDel |-> "no", follows |-> NoSet]

\* A call of BitcoinApiService.  key, cached, now and expiry are the cacheKey
\* and the locals of fetchWithCache; forced tells a getLatestBlock(true);
\* outcome, data, from and error are how the call ended: "returned" with data
\* taken from the cache, from upstream or from the cached entry as fallback, or
\* "raised" with the error caught.
NoFetch ==
  [pc |-> "idle", key |-> "none", forced |-> FALSE, cached |-> NoEntry,
   now |-> 0 - 1, expiry |-> 0, outcome |-> "none", data |-> "absent",
   from |-> "none", kind |-> "none", error |-> << >>]

\* getStats()
GetStats ==
  [redisConnected |-> isRedisConnected,
   memoryEntries |-> Cardinality({k \in Keys : globalCache[k] # NoEntry}),
   connectionAttempted |-> connectionAttempted]

\* the guard `this.isRedisConnected && this.redisClient` of every operation
UsesRedis == isRedisConnected /\ redisClient # "null"

-----------------------------------------------------------------------------
\* The fields of a CacheService before its constructor has run.
Init ==
  /\ hasConfig = FALSE
  /\ initPc = "new"
  /\ connectionAttempted = FALSE
  /\ redisClient = "null"
  /\ isRedisConnected = FALSE
  /\ globalCache = [k \in Keys |-> NoEntry]
  /\ socket = "none"
  /\ remote = [k \in Keys |-> NoRemote]
  /\ now = 0
  /\ connectDeadline = 0
  /\ sweepDue = FALSE
  /\ calls = [c \in Callers |-> NoCall]
  /\ ret = NoCall
  /\ steps = 0
  /\ named = {}
  /\ attempts = 0
  /\ everConnected = FALSE
  /\ lastSet = [k \in Keys |-> NoSet]
  /\ delDone = [k \in Keys |-> "no"]
  /\ prev = NoSet
  /\ shutdown = FALSE
  /\ cache = [k \in ApiKeys |-> NoEntry]
  /\ fetches = [c \in Callers |-> NoFetch]
  /\ fret = NoFetch
  /\ apiSweepAt = ApiSweepIntervalMs

-----------------------------------------------------------------------------
(* Construction and connection *)

\* Faulty variant of Configured: the configuration check is skipped.
ConfiguredAlways(env) == TRUE

\* `!redisUrl && !redisHost` is false
Configured(env) == "REDIS_URL" \in env \/ "REDIS_HOST" \in env

\* initializeRedis(), from its call to its first await (or to its return).
InitializeRedis(env) ==
  IF connectionAttempted
  THEN UNCHANGED << connectionAttempted, redisClient, socket, attempts,
                    connectDeadline, initPc >>
  ELSE /\ connectionAttempted' = TRUE
       /\ IF ~Configured(env)
          THEN /\ initPc' = "skipped"
               /\ UNCHANGED << redisClient, socket, attempts, connectDeadline >>
          ELSE /\ redisClient' = "client"
               /\ socket' = "connecting"
               /\ attempts' = attempts + 1
               /\ connectDeadline' = now + ConnectTimeoutMs
               /\ initPc' = "racing"

\* Module load: new CacheService() and the sweeper's setInterval.
Construct ==
  /\ initPc = "new"
  /\ \E env \in EnvSets :
       /\ hasConfig' = (env # {})
       /\ InitializeRedis(env)
  /\ sweepDue' = FALSE
  /\ ret' = NoCall
  /\ UNCHANGED << isRedisConnected, globalCache, remote, now, calls, steps, named,
                  everConnected, lastSet, delDone, prev >>
  /\ UNCHANGED << shutdown, apiVars >>

\* Faulty variant of ConnectCatch: the catch block re-arms the attempt.
ConnectCatchRearms ==
  /\ isRedisConnected' = FALSE
  /\ redisClient' = "null"
  /\ connectionAttempted' = FALSE

\* The catch block of initializeRedis.
ConnectCatch ==
  /\ isRedisConnected' = FALSE
  /\ redisClient' = "null"
  /\ UNCHANGED connectionAttempted

\* connect() resolves before the timer: initializeRedis returns.
ConnectResolves ==
  /\ initPc = "racing"
  /\ socket = "ready"
  /\ initPc' = "resolved"
  /\ ret' = NoCall
  /\ UNCHANGED << hasConfig, connectionAttempted, redisClient, isRedisConnected,
                  globalCache, socket, remote, now, connectDeadline, sweepDue,
                  calls, steps, named, attempts, everConnected, lastSet, delDone,
                  prev >>
  /\ UNCHANGED << shutdown, apiVars >>

\* The 15 s timer wins the race.
ConnectTimeout ==
  /\ initPc = "racing"
  /\ now >= connectDeadline
  /\ ConnectCatch
  /\ initPc' = "timedOut"
  /\ ret' = NoCall
  /\ UNCHANGED << hasConfig, globalCache, socket, remote, now, connectDeadline,
                  sweepDue, calls, steps, named, attempts, everConnected,
                  lastSet, delDone, prev >>
  /\ UNCHANGED << shutdown, apiVars >>

\* connect() rejects: the client has given up and its socket is closed.
ConnectRejects ==
  /\ initPc = "racing"
  /\ socket \in {"connecting", "open"}
  /\ ConnectCatch
  /\ initPc' = "rejected"
  /\ socket' = "closed"
  /\ ret' = NoCall
  /\ UNCHANGED << hasConfig, globalCache, remote, now, connectDeadline,
                  sweepDue, calls, steps, named, attempts, everConnected,
                  lastSet, delDone, prev >>
  /\ UNCHANGED << shutdown, apiVars >>

\* The handlers registered with redisClient.on(...).
OnError == isRedisConnected' = FALSE
OnConnect == isRedisConnected' = TRUE
OnReady == isRedisConnected' = TRUE
\* Faulty variant of OnDisconnect: the handler of 'connect' pasted unchanged.
OnDisconnectPasted == isRedisConnected' = TRUE
OnDisconnect == isRedisConnected' = FALSE

EventFrame ==
  /\ ret' = NoCall
  /\ everConnected' = (everConnected \/ isRedisConnected')
  /\ UNCHANGED << hasConfig, initPc, connectionAttempted, redisClient,
                  globalCache, remote, now, connectDeadline, sweepDue, calls,
                  steps, named, attempts, lastSet, delDone, prev >>
  /\ UNCHANGED << shutdown, apiVars >>

\* The socket connects: the client emits 'connect'.
EmitConnect ==
  /\ socket = "connecting"
  /\ socket' = "open"
  /\ OnConnect
  /\ EventFrame

\* The handshake is done: the client emits 'ready'.
EmitReady ==
  /\ socket = "open"
  /\ socket' = "ready"
  /\ OnReady
  /\ EventFrame

\* A socket error: the client emits 'error' and starts reconnecting.
EmitError ==
  /\ socket \in {"connecting", "open", "ready"}
  /\ socket' = "connecting"
  /\ OnError
  /\ EventFrame

\* The connection is lost: the client emits 'disconnect' and starts reconnecting.
EmitDisconnect ==
  /\ socket \in {"open", "ready"}
  /\ socket' = "connecting"
  /\ OnDisconnect
  /\ EventFrame

-----------------------------------------------------------------------------
(* Clock and sweeper *)

Tick ==
  /\ initPc # "new"
  /\ steps < MaxSteps
  /\ \E d \in TickSteps : now' = now + d
  /\ sweepDue' = TRUE
  /\ steps' = steps + 1
  /\ prev' = NoSet
  /\ ret' = NoCall
  /\ UNCHANGED << hasConfig, initPc, connectionAttempted, redisClient,
                  isRedisConnected, globalCache, socket, remote, connectDeadline,
                  calls, named, attempts, everConnected, lastSet, delDone >>
  /\ UNCHANGED << shutdown, apiVars >>

\* Faulty variant of ClearExpiredEntries: the comparison is inverted.
ClearExpiredEntriesInverted(maxAge) ==
  globalCache' =
    [k \in Keys |->
       IF globalCache[k] # NoEntry /\ now - globalCache[k].timestamp < maxAge
       THEN NoEntry
       ELSE globalCache[k]]

\* Faulty variant of ClearExpiredEntries: the loop body never deletes.
ClearExpiredEntriesKeeps(maxAge) == UNCHANGED globalCache

\* Faulty variant of ClearExpiredEntries: > where the code has >=.
ClearExpiredEntriesStrict(maxAge) ==
  globalCache' =
    [k \in Keys |->
       IF globalCache[k] # NoEntry /\ now - globalCache[k].timestamp > maxAge
       THEN NoEntry
       ELSE globalCache[k]]

\* Faulty variant of ClearExpiredEntries: the whole map is cleared.
ClearExpiredEntriesAll(maxAge) == globalCache' = [k \in Keys |-> NoEntry]

\* clearExpiredEntries(maxAge)
ClearExpiredEntries(maxAge) ==
  globalCache' =
    [k \in Keys |->
       IF globalCache[k] # NoEntry /\ now - globalCache[k].timestamp >= maxAge
       THEN NoEntry
       ELSE globalCache[k]]

\* lastSet' of a sweep: a set that wrote the Local Store at least maxAge ago
\* has been swept.
LastSetAfterSweep(maxAge) ==
  [k \in Keys |->
     IF lastSet[k].store = "memory" /\ now - lastSet[k].timestamp >= maxAge
     THEN [lastSet[k] EXCEPT !.store = "swept"]
     ELSE lastSet[k]]

\* The setInterval callback.
Sweep ==
  /\ initPc # "new"
  /\ sweepDue
  /\ ClearExpiredEntries(MaxAgeMs)
  /\ lastSet' = LastSetAfterSweep(MaxAgeMs)
  /\ sweepDue' = FALSE
  /\ prev' = NoSet
  /\ ret' = NoCall
  /\ UNCHANGED << hasConfig, initPc, connectionAttempted, redisClient,
                  isRedisConnected, socket, remote, now, connectDeadline, calls,
                  steps, named, attempts, everConnected, delDone >>
  /\ UNCHANGED << shutdown, apiVars >>

-----------------------------------------------------------------------------
(* The facade's operations.  A call that finds the remote usable issues one  *)
(* Redis command and awaits it; the command's reply, or its throwing, runs   *)
(* the rest of the method.  A reply needs a ready socket; a throw (socket    *)
(* error, closed client, timeout of the library) can come at any time.       *)

OpFrame ==
  UNCHANGED << hasConfig, initPc, connectionAttempted, redisClient, socket, now,
               connectDeadline, sweepDue, attempts, everConnected, shutdown,
               apiVars >>

\* Faulty variant of Caught: the catch block rethrows.
CaughtRethrows(rec, at) ==
  [rec EXCEPT !.failed = TRUE, !.failedAt = at, !.raised = TRUE]

\* `catch (error) { ... }` around the Redis branch of a method: what was thrown
\* inside the try block, by the command or by JSON.parse of its answer, ends
\* there and the method goes on.
Caught(rec, at) ==
  [rec EXCEPT !.failed = TRUE, !.failedAt = at, !.raised = FALSE]

\* Callers are interchangeable: a caller starts a call only if the callers
\* before it are busy.
Before(c) == {d \in Callers : d < c}
CanStart(c) ==
  /\ initPc # "new"
  /\ calls[c].pc = "idle"
  /\ \A d \in Before(c) : calls[d].pc = "await"
  /\ steps < MaxSteps
  /\ steps' = steps + 1

\* Keys are interchangeable: the first call that names a key names k1.
CanName(k) == k = "k1" \/ "k1" \in named

\* The frame of a step that continues a call after its await.
ReplyFrame == OpFrame /\ UNCHANGED << steps, named >>

Awaiting(c, op) == calls[c].pc = "await" /\ calls[c].op = op

NoneAwaitingBut(c) == \A d \in Callers \ {c} : calls[d].pc # "await"

\* The record of a call that starts: it awaits Redis if the remote is usable.
Started(op, k, v, ttl) ==
  [NoCall EXCEPT !.pc = IF UsesRedis THEN "await" ELSE "idle",
                 !.op = op, !.key = k, !.data = v, !.ttl = ttl,
                 !.issued = UsesRedis]

\* calls' when c starts and awaits: a get in flight no longer follows its set
\* immediately.
CallsOnStart(c, rec) ==
  [d \in Callers |->
     IF d = c THEN rec
     ELSE IF calls[d].pc = "await" THEN [calls[d] EXCEPT !.follows = NoSet]
     ELSE calls[d]]

\* calls' when c starts and returns without awaiting.
CallsOnSyncStart(c) == CallsOnStart(c, NoCall)

\* calls' when c returns from set(k, ...): calls in flight have a set in between.
CallsOnSetReturn(c, k) ==
  [d \in Callers |->
     IF d = c THEN NoCall
     ELSE IF calls[d].pc = "await"
          THEN [calls[d] EXCEPT !.follows = NoSet,
                                !.afterDel = IF calls[d].key = k THEN "no" ELSE @]
     ELSE calls[d]]

CallsOnReturn(c) == [calls EXCEPT ![c] = NoCall]

SetRecord(rec, store) ==
  [key |-> rec.key, data |-> rec.data, timestamp |-> rec.entry.timestamp,
   ttl |-> rec.ttl, store |-> store]

----
\* get(key)

\* Faulty variant of GetFromMemory: the map is never consulted.
GetFromMemoryMisses(rec) ==
  [rec EXCEPT !.pc = "idle", !.result = NoEntry, !.from = "none"]

\* Faulty variant of GetFromMemory: the read drops entries as old as the
\* sweeper's maxAge.
GetFromMemoryFresh(rec) ==
  LET fresh == globalCache[rec.key] # NoEntry
               /\ now - globalCache[rec.key].timestamp < MaxAgeMs
  IN  [rec EXCEPT !.pc = "idle",
                  !.result = IF fresh THEN globalCache[rec.key] ELSE NoEntry,
                  !.from = IF fresh THEN "memory" ELSE "none"]

\* the in-memory part of get: this.globalCache.get(key)
GetFromMemory(rec) ==
  [rec EXCEPT !.pc = "idle",
              !.result = globalCache[rec.key],
              !.from = IF globalCache[rec.key] # NoEntry THEN "memory" ELSE "none"]

GetStart(c, k) ==
  /\ CanStart(c)
  /\ CanName(k)
  /\ named' = named \cup {k}
  /\ LET rec == [Started("get", k, "absent", 0) EXCEPT
                   !.afterDel = delDone[k],
                   !.follows = IF prev.key = k THEN prev ELSE NoSet]
     IN  IF UsesRedis
         THEN calls' = CallsOnStart(c, rec) /\ ret' = NoCall
         ELSE calls' = CallsOnSyncStart(c) /\ ret' = GetFromMemory(rec)
  /\ prev' = NoSet
  /\ UNCHANGED << isRedisConnected, globalCache, remote, lastSet, delDone >>
  /\ OpFrame

\* redisClient.get(key) answers.
GetReply(c) ==
  /\ Awaiting(c, "get")
  /\ socket = "ready"
  /\ LET rec == calls[c]
         redisValue == RedisGet(rec.key)
     IN  ret' = IF redisValue # NoEntry
                THEN [rec EXCEPT !.pc = "idle",
                                 !.result = JSONParse(redisValue),
                                 !.from = "redis"]
                ELSE GetFromMemory(rec)
  /\ calls' = CallsOnReturn(c)
  /\ UNCHANGED << isRedisConnected, globalCache, remote, lastSet, delDone,
                  prev >>
  /\ ReplyFrame

\* redisClient.get(key) throws, or it answers with a string that JSON.parse
\* rejects (a payload some other writer of the database left under the key):
\* the catch block, then the in-memory read.
GetThrows(c, at) ==
  /\ Awaiting(c, "get")
  /\ at = "parse" => socket = "ready"
  /\ isRedisConnected' = FALSE
  /\ ret' = GetFromMemory(Caught(calls[c], at))
  /\ calls' = CallsOnReturn(c)
  /\ UNCHANGED << globalCache, remote, lastSet, delDone, prev >>
  /\ ReplyFrame

----
\* set(key, data, ttlMs)

\* Faulty variant of RedisWrite: the ttl branch is dropped, every write is a SET.
RedisWriteNoExpiry(rec) == RedisSet(rec.key, JSONStringify(rec.entry))

\* the Redis write of set: setEx with whole seconds when ttlMs > 0, else set
RedisWrite(rec) ==
  IF rec.ttl > 0
  THEN RedisSetEx(rec.key, CeilSeconds(rec.ttl), JSONStringify(rec.entry))
  ELSE RedisSet(rec.key, JSONStringify(rec.entry))

\* Faulty variant of SetToMemory: the write to the map is forgotten.
SetToMemoryForgets(c, rec) ==
  /\ UNCHANGED globalCache
  /\ ret' = [rec EXCEPT !.pc = "idle"]
  /\ lastSet' = [lastSet EXCEPT ![rec.key] = SetRecord(rec, "memory")]
  /\ delDone' = [delDone EXCEPT ![rec.key] = "no"]
  /\ prev' = IF NoneAwaitingBut(c) THEN SetRecord(rec, "memory") ELSE NoSet

\* the in-memory part of set: this.globalCache.set(key, entry)
SetToMemory(c, rec) ==
  /\ globalCache' = [globalCache EXCEPT ![rec.key] = rec.entry]
  /\ ret' = [rec EXCEPT !.pc = "idle"]
  /\ lastSet' = [lastSet EXCEPT ![rec.key] = SetRecord(rec, "memory")]
  /\ delDone' = [delDone EXCEPT ![rec.key] = "no"]
  /\ prev' = IF NoneAwaitingBut(c) THEN SetRecord(rec, "memory") ELSE NoSet

\* after a successful Redis write set returns at once
SetToRedisOnly(c, rec) ==
  /\ UNCHANGED globalCache
  /\ ret' = [rec EXCEPT !.pc = "idle"]
  /\ lastSet' = [lastSet EXCEPT ![rec.key] = SetRecord(rec, "redis")]
  /\ delDone' = [delDone EXCEPT ![rec.key] = "no"]
  /\ prev' = IF NoneAwaitingBut(c) THEN SetRecord(rec, "redis") ELSE NoSet

SetStart(c, k, v, ttl) ==
  /\ CanStart(c)
  /\ CanName(k)
  /\ named' = named \cup {k}
  /\ LET rec == [Started("set", k, v, ttl) EXCEPT !.entry = CacheEntry(v, now)]
     IN  IF UsesRedis
         THEN /\ calls' = CallsOnStart(c, rec)
              /\ ret' = NoCall
              /\ prev' = NoSet
              /\ UNCHANGED << globalCache, lastSet, delDone >>
         ELSE /\ calls' = CallsOnSetReturn(c, k)
              /\ SetToMemory(c, rec)
  /\ UNCHANGED << isRedisConnected, remote >>
  /\ OpFrame

\* setEx / set answers.
SetReply(c) ==
  /\ Awaiting(c, "set")
  /\ socket = "ready"
  /\ remote' = RedisWrite(calls[c])
  /\ SetToRedisOnly(c, calls[c])
  /\ calls' = CallsOnSetReturn(c, calls[c].key)
  /\ UNCHANGED isRedisConnected
  /\ ReplyFrame

\* setEx / set throws: the catch block, then the in-memory write.  The server
\* may have applied the write before the failure reached the client.
SetThrows(c, applied) ==
  /\ Awaiting(c, "set")
  /\ applied => socket = "ready"
  /\ isRedisConnected' = FALSE
  /\ remote' = IF applied THEN RedisWrite(calls[c]) ELSE remote
  /\ SetToMemory(c, Caught(calls[c], "command"))
  /\ calls' = CallsOnSetReturn(c, calls[c].key)
  /\ ReplyFrame

----
\* delete(key)

\* the in-memory part of delete: this.globalCache.delete(key)
DeleteFromMemory(rec) ==
  /\ globalCache' = [globalCache EXCEPT ![rec.key] = NoEntry]
  /\ ret' = [rec EXCEPT !.pc = "idle"]
  /\ lastSet' = [lastSet EXCEPT ![rec.key] = NoSet]
  /\ delDone' = [delDone EXCEPT ![rec.key] =
                  IF rec.issued /\ ~rec.failed THEN "both" ELSE "memory"]
  /\ prev' = NoSet

\* the catch block of delete
DeleteCatch == UNCHANGED isRedisConnected

DeleteStart(c, k) ==
  /\ CanStart(c)
  /\ CanName(k)
  /\ named' = named \cup {k}
  /\ LET rec == Started("delete", k, "absent", 0)
     IN  IF UsesRedis
         THEN /\ calls' = CallsOnStart(c, rec)
              /\ ret' = NoCall
              /\ prev' = NoSet
              /\ UNCHANGED << globalCache, lastSet, delDone >>
         ELSE /\ calls' = CallsOnSyncStart(c)
              /\ DeleteFromMemory(rec)
  /\ UNCHANGED << isRedisConnected, remote >>
  /\ OpFrame

\* del answers.
DeleteReply(c) ==
  /\ Awaiting(c, "delete")
  /\ socket = "ready"
  /\ remote' = RedisDel(calls[c].key)
  /\ DeleteFromMemory(calls[c])
  /\ calls' = CallsOnReturn(c)
  /\ UNCHANGED isRedisConnected
  /\ ReplyFrame

\* del throws.
DeleteThrows(c) ==
  /\ Awaiting(c, "delete")
  /\ DeleteCatch
  /\ DeleteFromMemory(Caught(calls[c], "command"))
  /\ calls' = CallsOnReturn(c)
  /\ UNCHANGED remote
  /\ ReplyFrame

----
\* clear()

\* Faulty variant of ClearMemory: clear returns before this.globalCache.clear().
ClearMemoryKeeps(rec) ==
  /\ UNCHANGED globalCache
  /\ ret' = [rec EXCEPT !.pc = "idle"]
  /\ lastSet' = [k \in Keys |-> NoSet]
  /\ prev' = NoSet
  /\ UNCHANGED delDone

\* the in-memory part of clear: this.globalCache.clear()
ClearMemory(rec) ==
  /\ globalCache' = [k \in Keys |-> NoEntry]
  /\ ret' = [rec EXCEPT !.pc = "idle"]
  /\ lastSet' = [k \in Keys |-> NoSet]
  /\ prev' = NoSet
  /\ UNCHANGED delDone

\* the catch block of clear
ClearCatch == UNCHANGED isRedisConnected

ClearStart(c) ==
  /\ CanStart(c)
  /\ UNCHANGED named
  /\ LET rec == Started("clear", "none", "absent", 0)
     IN  IF UsesRedis
         THEN /\ calls' = CallsOnStart(c, rec)
              /\ ret' = NoCall
              /\ prev' = NoSet
              /\ UNCHANGED << globalCache, lastSet, delDone >>
         ELSE /\ calls' = CallsOnSyncStart(c)
              /\ ClearMemory(rec)
  /\ UNCHANGED << isRedisConnected, remote >>
  /\ OpFrame

\* flushDb answers.
ClearReply(c) ==
  /\ Awaiting(c, "clear")
  /\ socket = "ready"
  /\ remote' = RedisFlushDb
  /\ ClearMemory(calls[c])
  /\ calls' = CallsOnReturn(c)
  /\ UNCHANGED isRedisConnected
  /\ ReplyFrame

\* flushDb throws.
ClearThrows(c) ==
  /\ Awaiting(c, "clear")
  /\ ClearCatch
  /\ ClearMemory(Caught(calls[c], "command"))
  /\ calls' = CallsOnReturn(c)
  /\ UNCHANGED remote
  /\ ReplyFrame

----
\* disconnect()

DisconnectFrame ==
  UNCHANGED << hasConfig, initPc, connectionAttempted, redisClient,
               isRedisConnected, globalCache, remote, now, connectDeadline,
               sweepDue, attempts, everConnected, lastSet, delDone, apiVars >>

\* redisClient.disconnect() closes the socket at once; its promise settles later.
DisconnectStart(c) ==
  /\ CanStart(c)
  /\ UNCHANGED named
  /\ LET rec == [NoCall EXCEPT !.op = "disconnect"]
     IN  IF redisClient # "null" /\ isRedisConnected
         THEN /\ calls' = CallsOnStart(c, [rec EXCEPT !.pc = "await"])
              /\ ret' = NoCall
              /\ socket' = "closed"
              /\ UNCHANGED shutdown
         ELSE /\ calls' = CallsOnSyncStart(c)
              /\ ret' = rec
              /\ shutdown' = TRUE
              /\ UNCHANGED socket
  /\ prev' = NoSet
  /\ DisconnectFrame

\* redisClient.disconnect() settles, by resolving or by throwing (ignored).
DisconnectSettles(c, threw) ==
  /\ Awaiting(c, "disconnect")
  /\ ret' = IF threw
            THEN [Caught(calls[c], "command") EXCEPT !.pc = "idle"]
            ELSE [calls[c] EXCEPT !.pc = "idle"]
  /\ calls' = CallsOnReturn(c)
  /\ shutdown' = TRUE
  /\ UNCHANGED << socket, prev, steps, named >>
  /\ DisconnectFrame

-----------------------------------------------------------------------------
\* Every step of the program and of its environment, for calls made by the
\* callers cs on the keys ks.
NextOf(cs, ks) ==
  \/ Construct
  \/ ConnectResolves
  \/ ConnectTimeout
  \/ ConnectRejects
  \/ EmitConnect
  \/ EmitReady
  \/ EmitError
  \/ EmitDisconnect
  \/ Tick
  \/ Sweep
  \/ \E c \in cs, k \in ks : GetStart(c, k)
  \/ \E c \in cs : GetReply(c)
  \/ \E c \in cs, at \in {"command", "parse"} : GetThrows(c, at)
  \/ \E c \in cs, k \in ks : \E in \in InputsOf(k) :
       SetStart(c, k, in[1], in[2])
  \/ \E c \in cs : SetReply(c)
  \/ \E c \in cs, applied \in BOOLEAN : SetThrows(c, applied)
  \/ \E c \in cs, k \in ks : DeleteStart(c, k)
  \/ \E c \in cs : DeleteReply(c)
  \/ \E c \in cs : DeleteThrows(c)
  \/ \E c \in cs : ClearStart(c)
  \/ \E c \in cs : ClearReply(c)
  \/ \E c \in cs : ClearThrows(c)
  \/ \E c \in cs : DisconnectStart(c)
  \/ \E c \in cs, threw \in BOOLEAN : DisconnectSettles(c, threw)

\* One call at a time, on either key.
Next == NextOf({1}, Keys)

\* Two calls may overlap, on one key.
NextOverlap == NextOf(Callers, {"k1"})

Spec == Init /\ [][Next]_vars

SpecOverlap == Init /\ [][NextOverlap]_vars

-----------------------------------------------------------------------------
(* clearExpiredEntries on its own: any content of the map, any time of the   *)
(* sweep, any maxAge.                                                        *)

SweepStamps == {0, SweepIntervalMs, MaxAgeMs}
SweepTimes == {MaxAgeMs, MaxAgeMs + SweepIntervalMs, 2 * MaxAgeMs}
SweepMaxAges == {SweepIntervalMs, MaxAgeMs}
SweepEntries ==
  {NoEntry} \cup {CacheEntry(v, t) : v \in {"v1", "v2"}, t \in SweepStamps}

\* A local-only cache whose map holds any entries written by earlier sets.
InitSweep ==
  /\ globalCache \in [Keys -> SweepEntries]
  /\ now \in SweepTimes
  /\ lastSet = [k \in Keys |->
                  IF globalCache[k] = NoEntry THEN NoSet
                  ELSE [key |-> k, data |-> globalCache[k].data,
                        timestamp |-> globalCache[k].timestamp,
                        ttl |-> 0, store |-> "memory"]]
  /\ hasConfig = FALSE
  /\ initPc = "skipped"
  /\ connectionAttempted = TRUE
  /\ redisClient = "null"
  /\ isRedisConnected = FALSE
  /\ socket = "none"
  /\ remote = [k \in Keys |-> NoRemote]
  /\ connectDeadline = 0
  /\ sweepDue = TRUE
  /\ calls = [c \in Callers |-> NoCall]
  /\ ret = NoCall
  /\ steps = 0
  /\ named = {k \in Keys : globalCache[k] # NoEntry}
  /\ attempts = 0
  /\ everConnected = FALSE
  /\ delDone = [k \in Keys |-> "no"]
  /\ prev = NoSet
  /\ shutdown = FALSE
  /\ cache = [k \in ApiKeys |-> NoEntry]
  /\ fetches = [c \in Callers |-> NoFetch]
  /\ fret = NoFetch
  /\ apiSweepAt = ApiSweepIntervalMs

\* cacheService.clearExpiredEntries(maxAge), called once.
SweepWith(maxAge) ==
  /\ sweepDue
  /\ ClearExpiredEntries(maxAge)
  /\ lastSet' = LastSetAfterSweep(maxAge)
  /\ sweepDue' = FALSE
  /\ UNCHANGED << hasConfig, initPc, connectionAttempted, redisClient,
                  isRedisConnected, socket, remote, now, connectDeadline, calls,
                  ret, steps, named, attempts, everConnected, delDone, prev >>
  /\ UNCHANGED << shutdown, apiVars >>

NextSweep == \E maxAge \in SweepMaxAges : SweepWith(maxAge)

SpecSweep == InitSweep /\ [][NextSweep]_vars

\* The client library rejects the commands that are pending when its socket
\* has been closed for good.
RejectPending ==
  /\ socket = "closed"
  /\ \E c \in Callers :
       \/ GetThrows(c, "command")
       \/ SetThrows(c, FALSE)
       \/ DeleteThrows(c)
       \/ ClearThrows(c)

\* The event loop runs a timer callback that is due (the sweeper's interval,
\* the connect timer) and the rejection of commands on a closed socket.
\* Nothing obliges Redis to answer a command on a socket that stays up.
SpecTimers ==
  /\ Init /\ [][Next]_vars
  /\ WF_vars(Sweep) /\ WF_vars(ConnectTimeout) /\ WF_vars(RejectPending)

-----------------------------------------------------------------------------
(* The remote write of set on its own: a Connected cache with one set in     *)
(* flight, for any ttlMs.                                                     *)

TtlInputs == {0 - 1000, 0, 1, 999, 1000, 1001, 1500, 60 * 1000}
WriteTimes == {0, 500}

\* The constructor has run with an endpoint configured, the client is ready,
\* and set(k, v, ttlMs) has been called and awaits its Redis command.
InitWrite ==
  /\ now \in WriteTimes
  /\ \E k \in Keys, v \in {"v1", "v2", "NaN"}, ttlMs \in TtlInputs :
       /\ calls = [c \in Callers |->
                     IF c = 1
                     THEN [NoCall EXCEPT !.pc = "await", !.op = "set",
                                         !.key = k, !.data = v, !.ttl = ttlMs,
                                         !.issued = TRUE,
                                         !.entry = CacheEntry(v, now)]
                     ELSE NoCall]
       /\ named = {k}
  /\ hasConfig = TRUE
  /\ initPc = "resolved"
  /\ connectionAttempted = TRUE
  /\ redisClient = "client"
  /\ isRedisConnected = TRUE
  /\ globalCache = [k \in Keys |-> NoEntry]
  /\ socket = "ready"
  /\ remote = [k \in Keys |-> NoRemote]
  /\ connectDeadline = ConnectTimeoutMs
  /\ sweepDue = FALSE
  /\ ret = NoCall
  /\ steps = 1
  /\ attempts = 1
  /\ everConnected = TRUE
  /\ lastSet = [k \in Keys |-> NoSet]
  /\ delDone = [k \in Keys |-> "no"]
  /\ prev = NoSet
  /\ shutdown = FALSE
  /\ cache = [k \in ApiKeys |-> NoEntry]
  /\ fetches = [c \in Callers |-> NoFetch]
  /\ fret = NoFetch
  /\ apiSweepAt = ApiSweepIntervalMs

NextWrite ==
  \/ SetReply(1)
  \/ \E applied \in BOOLEAN : SetThrows(1, applied)

SpecWrite == InitWrite /\ [][NextWrite]_vars

-----------------------------------------------------------------------------
(* BitcoinApiService: fetchWithCache, two of the methods built on it, and    *)
(* the periodic clearExpiredCache.  The upstream API and the fetch library   *)
(* are the environment.  The service keeps a map of its own and does not     *)
(* touch the CacheService.                                                   *)

serviceVars ==
  << hasConfig, initPc, connectionAttempted, redisClient, isRedisConnected,
     globalCache, socket, remote, connectDeadline, sweepDue, calls, ret, named,
     attempts, everConnected, lastSet, delDone, prev, shutdown >>

\* error.message.includes(word), a message being the sequence of its words
Includes(message, word) == \E i \in 1..Len(message) : message[i] = word

\* `Request timeout after ${this.fetchTimeout}ms`
TimeoutMessage == << "Request", "timeout", "after", "15000ms" >>

\* `HTTP error! status: ${response.status}`
HttpMessage == << "HTTP", "error!", "status:", "500" >>

\* What fetch() rejects with when the network fails.  The wording is the
\* library's: "request to <url> failed, reason: <cause>" or "fetch failed".
NetworkMessages ==
  { << "request", "to", "url", "failed,", "reason:", "ECONNRESET" >>,
    << "fetch", "failed" >> }

\* what response.json() rejects with
JsonMessage == << "invalid", "json", "response", "body" >>

\* The ways the try block of fetchWithCache fails other than by its timer.
Failures ==
  {[kind |-> "network", message |-> m] : m \in NetworkMessages}
    \cup {[kind |-> "http", message |-> HttpMessage],
          [kind |-> "json", message |-> JsonMessage]}

\* `Failed to fetch data from blockchain API: ${errorMessage}`
FailedToFetch(message) ==
  << "Failed", "to", "fetch", "data", "from", "blockchain", "API:" >> \o message

\* Callers are interchangeable, as those of the CacheService are.
ApiCanStart(c) ==
  /\ fetches[c].pc = "idle"
  /\ \A d \in Before(c) : fetches[d].pc = "await"
  /\ steps < MaxFetchSteps
  /\ steps' = steps + 1

ApiFrame == UNCHANGED << now, apiSweepAt, serviceVars >>

\* fetchWithCache(url, cacheKey, customExpiry), from its call to its first
\* await, on the map as the calling method left it.  customExpiry = 0 stands
\* for no customExpiry.  A fresh entry is returned at once.
FetchWithCache(c, cacheKey, customExpiry, forced, map) ==
  LET cached == map[cacheKey]
      expiry == IF customExpiry # 0 THEN customExpiry ELSE CacheExpiryMs
      rec == [NoFetch EXCEPT !.key = cacheKey, !.forced = forced,
                             !.cached = cached, !.now = now,
                             !.expiry = expiry]
  IN  /\ cache' = map
      /\ IF cached # NoEntry /\ now - cached.timestamp < expiry
         THEN /\ fret' = [rec EXCEPT !.outcome = "returned",
                                     !.data = cached.data, !.from = "cache"]
              /\ UNCHANGED fetches
         ELSE /\ fetches' = [fetches EXCEPT ![c] = [rec EXCEPT !.pc = "await"]]
              /\ fret' = NoFetch

\* Faulty variant of CacheDelete: the entry is left in the map.
CacheDeleteKeeps(map, cacheKey) == map

\* this.cache.delete(cacheKey)
CacheDelete(map, cacheKey) == [map EXCEPT ![cacheKey] = NoEntry]

\* getLatestBlock(forceRefresh)
GetLatestBlock(c, forceRefresh) ==
  /\ ApiCanStart(c)
  /\ FetchWithCache(c, "latest-block", LatestBlockCacheExpiryMs, forceRefresh,
                    IF forceRefresh
                    THEN CacheDelete(cache, "latest-block")
                    ELSE cache)
  /\ ApiFrame

\* getBlock(blockHash)
GetBlock(c) ==
  /\ ApiCanStart(c)
  /\ FetchWithCache(c, "block-h", 0, FALSE, cache)
  /\ ApiFrame

\* The response is OK and its body parses: the result is cached under the
\* time read when the call started, and returned.  Only the arrival of the
\* response is raced against the timer, its body may come later.
FetchReturns(c, data) ==
  /\ fetches[c].pc = "await"
  /\ cache' = [cache EXCEPT ![fetches[c].key] =
                 CacheEntry(data, fetches[c].now)]
  /\ fret' = [fetches[c] EXCEPT !.pc = "idle", !.outcome = "returned",
                                !.data = data, !.from = "upstream"]
  /\ fetches' = [fetches EXCEPT ![c] = NoFetch]
  /\ UNCHANGED steps
  /\ ApiFrame

\* Faulty variant of CacheOnFailure: the entry served as fallback is stamped
\* anew.
CacheOnFailureRestamps(rec) ==
  cache' = [cache EXCEPT ![rec.key] =
              IF @ # NoEntry THEN CacheEntry(@.data, now) ELSE @]

\* the catch block of fetchWithCache has no statement on this.cache
CacheOnFailure(rec) == UNCHANGED cache

\* The catch block of fetchWithCache: the entry read at the start of the call
\* is served when there is one and the message of the error has the word
\* timeout or the word fetch; else a new error is thrown.
FetchCatch(c, kind, message) ==
  LET rec == [fetches[c] EXCEPT !.pc = "idle", !.kind = kind]
  IN  /\ fret' =
           IF rec.cached # NoEntry
              /\ (Includes(message, "timeout") \/ Includes(message, "fetch"))
           THEN [rec EXCEPT !.outcome = "returned", !.data = rec.cached.data,
                            !.from = "fallback", !.error = message]
           ELSE [rec EXCEPT !.outcome = "raised",
                            !.error = FailedToFetch(message)]
      /\ fetches' = [fetches EXCEPT ![c] = NoFetch]
      /\ CacheOnFailure(rec)

\* fetch() rejects, the response is not OK, or its body does not parse.  A
\* rejection or a response comes before the timer is due.
FetchFails(c, failure) ==
  /\ fetches[c].pc = "await"
  /\ failure.kind \in {"network", "http"}
       => now < fetches[c].now + FetchTimeoutMs
  /\ FetchCatch(c, failure.kind, failure.message)
  /\ UNCHANGED steps
  /\ ApiFrame

\* The timer of the call wins the race.
FetchTimesOut(c) ==
  /\ fetches[c].pc = "await"
  /\ now >= fetches[c].now + FetchTimeoutMs
  /\ FetchCatch(c, "timeout", TimeoutMessage)
  /\ UNCHANGED steps
  /\ ApiFrame

\* clearExpiredCache()
ClearExpiredCache ==
  cache' =
    [k \in ApiKeys |->
       IF cache[k] # NoEntry /\ now - cache[k].timestamp >= CacheExpiryMs
       THEN NoEntry
       ELSE cache[k]]

\* The setInterval callback of the service.
ApiSweep ==
  /\ now >= apiSweepAt
  /\ ClearExpiredCache
  /\ apiSweepAt' = now + ApiSweepIntervalMs
  /\ fret' = NoFetch
  /\ UNCHANGED << fetches, now, steps, serviceVars >>

ApiTick ==
  /\ steps < MaxFetchSteps
  /\ \E d \in ApiTickSteps : now' = now + d
  /\ steps' = steps + 1
  /\ fret' = NoFetch
  /\ UNCHANGED << cache, fetches, apiSweepAt, serviceVars >>

NextFetch ==
  \/ \E c \in Callers, forceRefresh \in BOOLEAN : GetLatestBlock(c, forceRefresh)
  \/ \E c \in Callers : GetBlock(c)
  \/ \E c \in Callers, data \in UpstreamData : FetchReturns(c, data)
  \/ \E c \in Callers, failure \in Failures : FetchFails(c, failure)
  \/ \E c \in Callers : FetchTimesOut(c)
  \/ ApiSweep
  \/ ApiTick

SpecFetch == Init /\ [][NextFetch]_vars

-----------------------------------------------------------------------------
(* Properties.  ret is the call that returned in the last step, so a state   *)
(* predicate on ret speaks of the state in which that call returns.          *)

FacadeOps == {"get", "set", "delete", "clear"}

LastSetOfRet == lastSet[ret.key]

\* a get called with isRedisConnected false has just returned, and the latest
\* set of its key carried a ttl, within the sweeper's maxAge, that has not elapsed
DegradedGetOfLiveKey ==
  /\ ret.op = "get" /\ ~ret.issued /\ ~isRedisConnected
  /\ LastSetOfRet.store # "none"
  /\ LastSetOfRet.ttl > 0 /\ LastSetOfRet.ttl <= MaxAgeMs
  /\ now - LastSetOfRet.timestamp < LastSetOfRet.ttl

C3_GetAfterDeleteIsAbsent ==
  (ret.op = "get" /\ ret.afterDel # "no") => ret.result = NoEntry

\* C4: when the remote call issued by get, set, delete or clear throws, the
\* operation returns with getStats().redisConnected false.
C4_RemoteFailureDegrades ==
  (ret.op \in FacadeOps /\ ret.issued /\ ret.failed)
    => ~GetStats.redisConnected

C6_TimedOutStaysDegraded ==
  initPc = "timedOut" => ~GetStats.redisConnected

\* C7: with no endpoint configured a fresh cache reports redisConnected false,
\* connectionAttempted false and memoryEntries 0, and connectionAttempted
\* stays false after any operations.
C7_UnconfiguredStats ==
  (initPc # "new" /\ ~hasConfig)
    => /\ ~GetStats.connectionAttempted
       /\ ~GetStats.redisConnected
       /\ (steps = 0 => GetStats.memoryEntries = 0)

\* C8: at most one connection attempt is ever started, and
\* getStats().connectionAttempted, once true, never returns to false.
C8_OneAttemptOnly ==
  [][ /\ attempts' <= 1
      /\ (GetStats.connectionAttempted => GetStats.connectionAttempted') ]_vars

\* the one attempt has failed and cache calls have run since
C8_Witness ==
  /\ attempts = 1 /\ GetStats.connectionAttempted
  /\ initPc \in {"timedOut", "rejected"}
  /\ redisClient = "null" /\ ret.op \in FacadeOps

\* C9: with neither REDIS_URL nor REDIS_HOST set no client is created, no
\* command is issued to Redis, redisConnected is false in every state, and
\* every get is answered from the Local Store.
C9_LocalOnlyMode ==
  (initPc # "new" /\ ~hasConfig)
    => /\ redisClient = "null" /\ socket = "none" /\ attempts = 0
       /\ ~GetStats.redisConnected
       /\ \A c \in Callers : calls[c].pc # "await"
       /\ ~ret.issued
       /\ ret.op = "get"
            => (ret.from # "redis" /\ ret.result = globalCache[ret.key])

\* an unconfigured cache has answered a get from the Local Store with the
\* entry a set had put there
C9_Witness ==
  /\ ~hasConfig /\ ret.op = "get" /\ ret.from = "memory"
  /\ ret.result # NoEntry /\ ret.result = globalCache[ret.key]

AgeOfFollowed == now - ret.follows.timestamp

LocalOnlyGetOfStaleKey ==
  /\ ~hasConfig /\ ret.op = "get"
  /\ LastSetOfRet.store # "none" /\ LastSetOfRet.ttl > 0
  /\ now - LastSetOfRet.timestamp >= LastSetOfRet.ttl

\* C11 (as claimed): in Local-only mode a get(k) called when
\* now - timestamp >= ttl for the entry written by the latest set(k, v, ttl)
\* returns absent; the stale entry is never returned.
C11_StaleLocalGetIsAbsent ==
  LocalOnlyGetOfStaleKey => ret.result = NoEntry

\* C11 (amended): in Local-only mode get(k) applies no ttl: it returns the
\* entry of the latest set(k, v, ttl), with the timestamp of that set, also
\* after ttl has elapsed, and returns absent only once the sweeper has run
\* with the entry at least maxAge old.
C11_StaleLocalGetUntilSwept ==
  LocalOnlyGetOfStaleKey =>
    /\ ret.result =
         IF LastSetOfRet.store = "swept"
         THEN NoEntry
         ELSE CacheEntry(LastSetOfRet.data, LastSetOfRet.timestamp)
    /\ LastSetOfRet.store = "swept"
         => now - LastSetOfRet.timestamp >= MaxAgeMs
    /\ (now - LastSetOfRet.timestamp >= MaxAgeMs /\ ~sweepDue)
         => LastSetOfRet.store = "swept"

\* the sweeper has run after the ttl elapsed, and the get still returns the
\* stale entry, which is younger than maxAge
C11_Witness ==
  /\ LocalOnlyGetOfStaleKey /\ ~sweepDue
  /\ now - LastSetOfRet.timestamp < MaxAgeMs
  /\ ret.result = CacheEntry(LastSetOfRet.data, LastSetOfRet.timestamp)

\* a get whose remote GET was issued and answered has just returned, and the
\* latest set of its key, made with a ttl, wrote Redis
ConnectedGetOfRemoteKey ==
  /\ ret.op = "get" /\ ret.issued /\ ~ret.failed
  /\ LastSetOfRet.store = "redis" /\ LastSetOfRet.ttl > 0

\* C12 (as claimed): a Connected get returns the remote entry only if
\* now - timestamp < ttl, returns a Local Store entry only under the same
\* test, and returns absent only when neither store holds a fresh entry.
C12_ConnectedGetTestsStaleness ==
  ConnectedGetOfRemoteKey =>
    /\ ret.result # NoEntry => now - ret.result.timestamp < LastSetOfRet.ttl
    /\ ret.result = NoEntry =>
         /\ RedisGet(ret.key) = NoEntry
         /\ \/ globalCache[ret.key] = NoEntry
            \/ now - globalCache[ret.key].timestamp >= LastSetOfRet.ttl

\* C12 (amended): get applies no staleness test of its own.  A Connected get
\* returns the remote entry whenever Redis still holds it, and Redis expires
\* it ceil(ttl / 1000) seconds after the write reached it, which is never
\* before timestamp + ttl and can be after; once Redis no longer holds it the
\* get returns the Local Store entry for the key as it is, absent if none.
C12_ConnectedGetTrustsRedisExpiry ==
  ConnectedGetOfRemoteKey =>
    /\ remote[ret.key].expireAt # NoExpiry
    /\ remote[ret.key].expireAt
         >= LastSetOfRet.timestamp + 1000 * CeilSeconds(LastSetOfRet.ttl)
    /\ remote[ret.key].expireAt <= now + 1000 * CeilSeconds(LastSetOfRet.ttl)
    /\ IF now < remote[ret.key].expireAt
       THEN /\ ret.from = "redis"
            /\ ret.result =
                 JSONParse(JSONStringify(
                   CacheEntry(LastSetOfRet.data, LastSetOfRet.timestamp)))
       ELSE /\ ret.from # "redis"
            /\ ret.result = globalCache[ret.key]

\* Redis has answered with an entry whose ttl, counted from its timestamp,
\* has elapsed
C12_Witness ==
  /\ ConnectedGetOfRemoteKey /\ ret.from = "redis"
  /\ now - ret.result.timestamp >= LastSetOfRet.ttl
  /\ now < remote[ret.key].expireAt

\* C13: a get whose remote GET finds no entry, or throws, returns the Local
\* Store entry for the key (absent only if the Local Store has none).
C13_RemoteMissFallsThrough ==
  (/\ ret.op = "get" /\ ret.issued
   /\ (ret.failed \/ RedisGet(ret.key) = NoEntry))
    => /\ ret.result = globalCache[ret.key]
       /\ ret.from = IF globalCache[ret.key] # NoEntry THEN "memory" ELSE "none"

\* Redis answered that it has no entry and the get returned the entry of the
\* Local Store
C13_Witness ==
  /\ ret.op = "get" /\ ret.issued /\ ~ret.failed
  /\ RedisGet(ret.key) = NoEntry
  /\ globalCache[ret.key] # NoEntry
  /\ ret.result = globalCache[ret.key] /\ ret.from = "memory"

\* the remote GET threw and the get returned the entry of the Local Store
C13_WitnessThrows ==
  /\ ret.op = "get" /\ ret.issued /\ ret.failed
  /\ globalCache[ret.key] # NoEntry
  /\ ret.result = globalCache[ret.key] /\ ret.from = "memory"

\* C14: no call of get, set, delete, clear or disconnect ends by raising to
\* its caller, whatever the remote does (a command that throws, a stored
\* payload that does not parse, an 'error' event); a get whose remote read
\* failed reports the Local Store's entry or absent.
C14_FacadeNeverRaises ==
  /\ ~ret.raised
  /\ \A c \in Callers : ~calls[c].raised
  /\ (ret.op = "get" /\ ret.failed) => ret.result = globalCache[ret.key]

\* a get whose remote answer did not parse has returned absent to its caller
C14_Witness ==
  /\ ret.op = "get" /\ ret.failed /\ ret.failedAt = "parse"
  /\ ~ret.raised /\ ret.result = NoEntry
  /\ ~isRedisConnected

\* C15: every get, set, delete and clear that has issued a remote command
\* eventually returns, even if the command never completes.  Stated for the
\* runs that keep steps to spare, so that only a call left waiting by the
\* remote counts.
C15_EveryCallReturns ==
  \A c \in Callers :
    (calls[c].pc = "await" /\ calls[c].op \in FacadeOps)
      ~> (calls[c].pc # "await" \/ steps = MaxSteps)

\* C16: when the remote write issued by set(k, v, ttl) throws, the set
\* returns normally with the entry for (k, v) in the Local Store, and issues
\* no second remote write.
C16_FailedRemoteWriteKeepsLocal ==
  (ret.op = "set" /\ ret.issued /\ ret.failed)
    => /\ ~ret.raised
       /\ globalCache[ret.key] = CacheEntry(ret.data, ret.entry.timestamp)
       /\ \A c \in Callers : calls[c].pc # "await"
       /\ ~isRedisConnected

\* the remote write threw without reaching Redis, after time had passed since
\* the set was called, and the Local Store holds the entry stamped at the call
C16_Witness ==
  /\ ret.op = "set" /\ ret.issued /\ ret.failed
  /\ remote[ret.key] = NoRemote
  /\ now > ret.entry.timestamp
  /\ globalCache[ret.key] = CacheEntry(ret.data, ret.entry.timestamp)

\* the entries that clearExpiredEntries(maxAge) must not leave behind
Expired(maxAge) ==
  {k \in Keys : globalCache[k] # NoEntry
                /\ now - globalCache[k].timestamp >= maxAge}

\* C17: right after clearExpiredEntries(maxAge) returns, no entry left in the
\* Local Store has now - timestamp >= maxAge, whatever the store held.
C17_NoExpiredEntryAfterSweep ==
  [][ \A maxAge \in SweepMaxAges :
        SweepWith(maxAge) => (Expired(maxAge))' = {} ]_vars

\* a sweep has removed the entry of one key and kept that of another, which
\* is old but younger than the maxAge of the sweep
C17_Witness ==
  /\ ~sweepDue
  /\ \E k \in Keys : lastSet[k].store = "swept" /\ globalCache[k] = NoEntry
  /\ \E k \in Keys : /\ globalCache[k] # NoEntry
                     /\ now - globalCache[k].timestamp >= SweepIntervalMs

\* C18: a sweep leaves every Local Store entry younger than maxAge as it is,
\* issues no remote command, and leaves the remote store, isRedisConnected
\* and connectionAttempted unchanged.
C18_SweepTouchesNothingElse ==
  [][ Sweep =>
        /\ \A k \in Keys :
             (globalCache[k] # NoEntry
              /\ now - globalCache[k].timestamp < MaxAgeMs)
               => globalCache'[k] = globalCache[k]
        /\ UNCHANGED << remote, isRedisConnected, connectionAttempted,
                        redisClient, socket, calls >> ]_vars

\* the sweeper has run on a Connected cache and has kept an entry written
\* before the clock step that made the sweep due, Redis holding an entry too
C18_Witness ==
  /\ ~sweepDue /\ now > 0 /\ isRedisConnected
  /\ \E k \in Keys : remote[k] # NoRemote
  /\ \E k \in Keys : /\ globalCache[k] # NoEntry
                     /\ globalCache[k].timestamp < now
                     /\ now - globalCache[k].timestamp < MaxAgeMs

\* C19: when clear() returns the Local Store is empty
\* (getStats().memoryEntries = 0), whether Redis was in use or not and
\* whether its flush succeeded or threw.
C19_ClearEmptiesLocal ==
  ret.op = "clear" =>
    /\ GetStats.memoryEntries = 0
    /\ \A k \in Keys : globalCache[k] = NoEntry

\* a clear whose flush threw has returned: the Local Store is empty while
\* Redis still holds an entry
C19_Witness ==
  /\ ret.op = "clear" /\ ret.issued /\ ret.failed
  /\ GetStats.memoryEntries = 0
  /\ \E k \in Keys : remote[k] # NoRemote

C21_StaleFallbackOnUpstreamFailure ==
  fret.kind \in {"timeout", "network"} =>
    IF fret.cached # NoEntry
    THEN fret.outcome = "returned" /\ fret.data = fret.cached.data
    ELSE fret.outcome = "raised"

\* C22: the remote entry written by a set with ttlMs > 0 expires after the
\* least whole number of seconds that is not shorter than ttlMs, so never
\* before ttlMs and less than one second after it; written by a set with
\* ttlMs absent, 0 or negative it has no expiry.
C22_NativeExpiryOnRemoteWrites ==
  (ret.op = "set" /\ ret.issued /\ ~ret.failed) =>
    IF ret.ttl > 0
    THEN /\ remote[ret.key].expireAt # NoExpiry
         /\ LET lifetime == remote[ret.key].expireAt - now
            IN  /\ lifetime % 1000 = 0
                /\ lifetime >= ret.ttl
                /\ lifetime - ret.ttl < 1000
    ELSE /\ remote[ret.key].value = JSONStringify(ret.entry)
         /\ remote[ret.key].expireAt = NoExpiry

\* a set with a ttl of one and a half seconds has written an entry that Redis
\* keeps for two seconds
C22_Witness ==
  /\ ret.op = "set" /\ ret.issued /\ ~ret.failed /\ ret.ttl = 1500
  /\ remote[ret.key].expireAt = now + 2000

\* C23: the periodic sweeper is cancelled at shutdown: once disconnect() has
\* returned, the Local Store is never swept again.
C23_NoSweepAfterShutdown ==
  [][ shutdown => ~Sweep ]_vars

\* C24: after disconnect() has returned on a cache that holds a client, the
\* remote connection is closed, getStats().redisConnected is false, and no
\* get, set, delete or clear issues a remote command.
C24_ShutdownReleasesRemote ==
  (shutdown /\ redisClient # "null") =>
    /\ socket = "closed"
    /\ ~GetStats.redisConnected
    /\ ~(ret.op \in FacadeOps /\ ret.issued)
    /\ \A c \in Callers :
         calls[c].pc = "await" => calls[c].op = "disconnect"

\* C25: a getLatestBlock(true) never returns cached data: it returns data of
\* the upstream fetch it started itself or it fails, it never serves a cached
\* 'latest-block' entry as fallback, and it leaves no older entry in the map,
\* also when other calls are in flight.
C25_ForcedRefreshNeverServesCache ==
  fret.forced =>
    /\ fret.cached = NoEntry
    /\ \/ fret.outcome = "returned" /\ fret.from = "upstream"
          /\ cache[fret.key] = CacheEntry(fret.data, fret.now)
       \/ fret.outcome = "raised" /\ fret.from = "none"

\* a getLatestBlock(true) has timed out and failed while the map holds the
\* entry that a call in flight beside it cached in the meantime
C25_Witness ==
  /\ fret.forced /\ fret.outcome = "raised" /\ fret.kind = "timeout"
  /\ cache["latest-block"] # NoEntry

\* C26: a get(k) returns absent or the value of the most recent completed
\* set(k, ...) (in its JSON form when Redis answers), never a value that a
\* later completed set(k, ...) has overwritten.
C26_NoResurrectionOfOverwritten ==
  (ret.op = "get" /\ LastSetOfRet.store # "none" /\ ret.result # NoEntry)
    => ret.result.data \in
         {LastSetOfRet.data,
          JSONStringify(CacheEntry(LastSetOfRet.data, 0)).data}

\* C27: in every reachable state isRedisConnected = true implies that the
\* client handle is not null, so that getStats().redisConnected is true only
\* when the operations use the remote store.
C27_StatsConsistentWithRouting ==
  /\ isRedisConnected => redisClient # "null"
  /\ GetStats.redisConnected => UsesRedis

\* C28: timestamps never go backwards: every write to the in-process map
\* stores a timestamp not smaller than that of the entry it replaces, however
\* the calls that write the same cacheKey overlap.
C28_TimestampsNeverGoBackwards ==
  [][ \A k \in ApiKeys :
        (cache[k] # NoEntry /\ cache'[k] # NoEntry)
          => cache'[k].timestamp >= cache[k].timestamp ]_vars

\* the entry under cacheKey is fresh for a call made now with this expiry
Fresh(map, cacheKey, expiry) ==
  map[cacheKey] # NoEntry /\ now - map[cacheKey].timestamp < expiry

\* C29: a fetchWithCache whose upstream call times out, fails or answers with
\* a non-OK status adds, removes and modifies no entry of the map (an entry
\* served as fallback keeps its timestamp); and a call that finds a fresh
\* entry returns its data without an upstream call, while a call that starts
\* an upstream call found none.
C29_FailedFetchLeavesCacheUnchanged ==
  [][ /\ fret'.kind # "none" => UNCHANGED cache
      /\ fret'.from = "fallback" => fret'.data = fret'.cached.data
      /\ fret'.from = "cache"
           => /\ UNCHANGED << cache, fetches >>
              /\ Fresh(cache, fret'.key, fret'.expiry)
              /\ fret'.data = cache[fret'.key].data
      /\ \A c \in Callers :
           (fetches[c].pc = "idle" /\ fetches'[c].pc = "await")
             => ~Fresh(cache', fetches'[c].key, fetches'[c].expiry) ]_vars

\* a call has timed out and has served the stale entry, which the map still
\* holds under its old timestamp
C29_Witness ==
  /\ fret.kind = "timeout" /\ fret.from = "fallback"
  /\ now - fret.cached.timestamp >= fret.expiry
  /\ cache[fret.key] = fret.cached

====
